---- MODULE Spec2Model ----
(***************************************************************************)
(* A model of async_connect: the transport layer (HTTPClient.request) and  *)
(* the domain facade (Client).  Two specifications share the variables:    *)
(*   Spec       the session life cycle of one Client used by several       *)
(*              concurrent callers (sign_in, is_signed_in, sign_out,       *)
(*              close), each coroutine split at its await points;          *)
(*   SpecCalls  the calls whose result depends only on their arguments and *)
(*              on the server's response (request, playlist mutation,      *)
(*              search and browse, catalog reads, bulk listings, profile). *)
(***************************************************************************)
EXTENDS Integers, Sequences, FiniteSets

VARIABLES
    is_closed,        \* Client._is_closed (client.py:45, 81, 85)
    session_closed,   \* HTTPClient.session (http.py:25) has been closed
    close_calls,      \* how many times HTTPClient.close has been invoked (client.py:84)
    close_failures,   \* how many of those invocations raised
    server_session,   \* the server holds a session for the client's cookie
    session_hist,     \* "none" | "in" | "out": the last session change seen by callers
    call,             \* per caller: the call in progress, or the last one finished
    last              \* the last finished stateless call

vars == <<is_closed, session_closed, close_calls, close_failures,
          server_session, session_hist, call, last>>

sessionVars == <<is_closed, session_closed, close_calls, close_failures,
                 server_session, session_hist, call>>

(***************************************************************************)
(* Bounds.                                                                 *)
(***************************************************************************)
NumTasks == 2
MaxCloseFailures == 1
MaxEntries == 2
MaxResults == 2

(***************************************************************************)
(* Python values.  A JSON value is a record tagged by its Python type.     *)
(***************************************************************************)
None == [t |-> "None"]
PyDict(d) == [t |-> "dict", d |-> d]
PyList(l) == [t |-> "list", l |-> l]
PyInt(n) == [t |-> "int", n |-> n]

EmptyDict == PyDict(<<>>)

\* How a call ends.
Return(v) == [kind |-> "return", value |-> v]
Raise(exc, msg) == [kind |-> "raise", exc |-> exc, message |-> msg]
RaiseWithResponse(exc, msg, status) ==
    [kind |-> "raise", exc |-> exc, message |-> msg, response |-> status]

(***************************************************************************)
(* Response bodies.  A body is either raw text that is no JSON document    *)
(* (the empty body is the raw text "") or the serialization of a JSON      *)
(* value.                                                                  *)
(***************************************************************************)
RawText(s) == [json |-> FALSE, s |-> s]
JsonText(v) == [json |-> TRUE, v |-> v]
EmptyText == RawText("")

\* bool(text): a Python string is falsy exactly when it is empty.
Truthy(text) == text # EmptyText

\* json.loads(text): the parsed value, or JSONDecodeError.
json_loads(text) ==
    IF text.json THEN [ok |-> TRUE, v |-> text.v] ELSE [ok |-> FALSE]

\* data.pop('message', 'Unknown error') on whatever data is.
pop_message(data) ==
    CASE data.t = "dict" ->
            IF "message" \in DOMAIN data.d
            THEN Return(data.d.message) ELSE Return("Unknown error")
      [] data.t = "list" -> Raise("TypeError", "pop expected at most 1 argument, got 2")
      [] OTHER -> Raise("AttributeError", "object has no attribute 'pop'")

\* data = {'message': text} without the test of text
ParseAlwaysWraps(text) ==
    LET parsed == json_loads(text)
    IN  IF parsed.ok THEN parsed.v ELSE PyDict([message |-> text.s])

\* The body as HTTPClient.request reads it: the parsed JSON, the raw text
\* wrapped as a message, or None for the empty body.
parse_body(text) ==
    LET parsed == json_loads(text)
    IN  IF parsed.ok THEN parsed.v
        ELSE IF Truthy(text) THEN PyDict([message |-> text.s]) ELSE None

\* The try block of HTTPClient.request: status and body text to outcome.
classify(status, text) ==
    LET data == parse_body(text)
        m == pop_message(data)
    IN  IF 300 > status /\ status >= 200 THEN Return(data)
        ELSE IF m.kind = "raise" THEN m
        ELSE IF status = 401 THEN Raise("Unauthorized", m.value)
        ELSE IF status = 403 THEN Raise("Forbidden", m.value)
        ELSE IF status = 404 THEN Raise("NotFound", m.value)
        ELSE RaiseWithResponse("HTTPSException", m.value, status)

\* The request as sent: the headers and the serialized body.
NoJson == [given |-> FALSE]
Json(v) == [given |-> TRUE, v |-> v]

\* HTTPClient.user_agent, fixed at construction; the two headers as pairs.
user_agent == "AsyncConnectBot"
UserAgentHeader == <<"User-Agent", user_agent>>
ContentTypeHeader == <<"Content-Type", "application/json">>

\* utils.to_json(obj): the JSON text of obj
to_json(v) == JsonText(v)

\* The Content-Type header set whether or not a json body was given
SentAlwaysContentType(method, url, json) ==
    [method |-> method, url |-> url,
     headers |-> {UserAgentHeader, ContentTypeHeader},
     data |-> IF json.given THEN to_json(json.v) ELSE EmptyText]

sent_request(method, url, json) ==
    [method |-> method, url |-> url,
     headers |-> IF json.given THEN {UserAgentHeader, ContentTypeHeader}
                 ELSE {UserAgentHeader},
     data |-> IF json.given THEN to_json(json.v) ELSE EmptyText]

\* HTTPClient.request: the request sent and the outcome for the server's response.
request(method, url, json, resp) ==
    [sent |-> <<sent_request(method, url, json)>>,
     outcome |-> classify(resp.status, resp.text)]

(***************************************************************************)
(* The server's responses.                                                 *)
(***************************************************************************)
Statuses == {200, 204, 299, 300, 400, 401, 403, 404, 500}

ErrorTexts ==
    { EmptyText,
      RawText("Bad Gateway"),
      JsonText(EmptyDict),
      JsonText(PyDict([message |-> "Invalid session"])),
      JsonText(PyDict([error |-> "quota"])),
      JsonText(PyList(<<>>)),
      JsonText(None),
      JsonText(PyInt(42)) }

Responses == [status : Statuses, text : ErrorTexts]

Methods == {"GET", "POST"}
Bodies == {NoJson, Json(PyDict([name |-> "mix"])), Json(None)}

(***************************************************************************)
(* Stateless calls.  They share no state, so each is examined on its own,  *)
(* from the state in which no call has been made.                          *)
(***************************************************************************)
NoCall == [op |-> "none"]

Request ==
    \E method \in Methods, json \in Bodies, resp \in Responses :
        LET r == request(method, "SELF", json, resp)
        IN  /\ last = NoCall
            /\ last' = [op |-> "request", resp |-> resp, json |-> json,
                        sent |-> r.sent, outcome |-> r.outcome]
            /\ UNCHANGED sessionVars

(***************************************************************************)
(* Domain objects.  An entity is built by unpacking a JSON object;         *)
(* anything that is no mapping cannot be unpacked.                         *)
(***************************************************************************)
Deserialize(cls, data) ==
    IF data.t = "dict"
    THEN Return([cls |-> cls, fields |-> data.d])
    ELSE Raise("TypeError", "argument after ** must be a mapping")

\* A track knows the ids of the releases it appears on (track.albums).
Tracks ==
    { [id |-> "t1", albums |-> {"r1"}],
      [id |-> "t2", albums |-> {"r1", "r2"}] }
Releases == { [id |-> "r1"], [id |-> "r2"], [id |-> "r3"] }
Playlists == { [id |-> "p1"] }

Pairs == Tracks \X Releases

EntryLists == UNION { [1..n -> Pairs] : n \in 0..MaxEntries }

NoEntries == [given |-> FALSE]
Entries(es) == [given |-> TRUE, es |-> es]
EntriesArgs == {NoEntries} \cup { Entries(es) : es \in EntryLists }

\* utils.find(predicate, seq): an element satisfying the predicate, or None.
find_album(release, albums) ==
    IF \E a \in albums : a = release.id
    THEN [found |-> TRUE, id |-> release.id] ELSE [found |-> FALSE]

\* find(lambda a: a.id == release.id, track.albums) is truthy
FindAlwaysTruthy(track, release) == TRUE

pair_valid(track, release) == find_album(release, track.albums).found

\* The validation loop over entries: the json entries built, or ValueError
\* at the first invalid pair.
RECURSIVE json_entries(_, _, _)
json_entries(entries, i, acc) ==
    IF i > Len(entries) THEN [ok |-> TRUE, json |-> acc]
    ELSE IF pair_valid(entries[i][1], entries[i][2])
         THEN json_entries(entries, i + 1,
                  Append(acc, [trackId |-> entries[i][1].id,
                               releaseId |-> entries[i][2].id]))
         ELSE [ok |-> FALSE, at |-> i]

ValueError == Raise("ValueError", "The track is not in the release's track list.")

\* No request was sent, so no response was received.
NoResponse == [status |-> 0, text |-> EmptyText]

PlaylistJson == PyDict([name |-> "mix", tracks |-> <<>>])

PlaylistResponses ==
    { [status |-> 200, text |-> JsonText(PlaylistJson)],
      [status |-> 403, text |-> JsonText(PyDict([message |-> "Not signed in"]))],
      [status |-> 401, text |-> EmptyText],
      [status |-> 204, text |-> EmptyText] }

\* A call of the facade that makes at most one request: the awaited JSON unpacked into the entity.
one_object(cls, r) ==
    [sent |-> r.sent,
     outcome |-> IF r.outcome.kind = "raise" THEN r.outcome
                 ELSE Deserialize(cls, r.outcome.value)]

no_request(outcome) == [sent |-> <<>>, outcome |-> outcome]

\* HTTPClient.create_playlist / add_playlist_track / add_playlist_tracks
http_create_playlist(name, public, entries, resp) ==
    request("POST", "PLAYLIST",
            Json(PyDict([name |-> name, public |-> public, tracks |-> entries])), resp)

http_add_playlist_track(playlist_id, track_id, release_id, resp) ==
    request("PATCH", <<"PLAYLIST", playlist_id>>,
            Json(PyDict([tracks |-> <<[trackId |-> track_id, releaseId |-> release_id]>>])),
            resp)

http_add_playlist_tracks(playlist_id, entries, resp) ==
    request("PATCH", <<"PLAYLIST", playlist_id>>,
            Json(PyDict([tracks |-> entries])), resp)

\* Client.create_playlist
create_playlist(name, public, entries, resp) ==
    IF entries.given /\ entries.es # <<>>
    THEN LET v == json_entries(entries.es, 1, <<>>)
         IN  IF v.ok
             THEN one_object("Playlist", http_create_playlist(name, public, v.json, resp))
             ELSE no_request(ValueError)
    ELSE one_object("Playlist", http_create_playlist(name, public, <<>>, resp))

\* Client.add_playlist_track
add_playlist_track(playlist, track, release, resp) ==
    IF pair_valid(track, release)
    THEN one_object("Playlist",
             http_add_playlist_track(playlist.id, track.id, release.id, resp))
    ELSE no_request(ValueError)

\* Client.add_playlist_tracks
add_playlist_tracks(playlist, entries, resp) ==
    LET v == json_entries(entries, 1, <<>>)
    IN  IF v.ok
        THEN one_object("Playlist", http_add_playlist_tracks(playlist.id, v.json, resp))
        ELSE no_request(ValueError)

CreatePlaylist ==
    \E public \in BOOLEAN, entries \in EntriesArgs, resp \in PlaylistResponses :
        LET r == create_playlist("mix", public, entries, resp)
        IN  /\ last = NoCall
            /\ last' = [op |-> "create_playlist",
                        entries |-> IF entries.given THEN entries.es ELSE <<>>,
                        family |-> "playlist",
                        resp |-> IF r.sent = <<>> THEN NoResponse ELSE resp,
                        sent |-> r.sent, outcome |-> r.outcome]
            /\ UNCHANGED sessionVars

AddPlaylistTrack ==
    \E playlist \in Playlists, pair \in Pairs, resp \in PlaylistResponses :
        LET r == add_playlist_track(playlist, pair[1], pair[2], resp)
        IN  /\ last = NoCall
            /\ last' = [op |-> "add_playlist_track", entries |-> <<pair>>,
                        family |-> "playlist",
                        resp |-> IF r.sent = <<>> THEN NoResponse ELSE resp,
                        sent |-> r.sent, outcome |-> r.outcome]
            /\ UNCHANGED sessionVars

AddPlaylistTracks ==
    \E playlist \in Playlists, entries \in EntryLists, resp \in PlaylistResponses :
        LET r == add_playlist_tracks(playlist, entries, resp)
        IN  /\ last = NoCall
            /\ last' = [op |-> "add_playlist_tracks", entries |-> entries,
                        family |-> "playlist",
                        resp |-> IF r.sent = <<>> THEN NoResponse ELSE resp,
                        sent |-> r.sent, outcome |-> r.outcome]
            /\ UNCHANGED sessionVars


(***************************************************************************)
(* Search and browse.                                                      *)
(***************************************************************************)
Terms == {"nocturnal", "a b"}

\* urllib.parse.quote on the terms used here
quote(term) == IF term = "a b" THEN "a%20b" ELSE term

\* str(limit), str(skip), year: None or a number
Limits == {"None", "5"}
Years == {"None", "0", "2017"}

\* bool(year)
year_given(year) == year # "None" /\ year # "0"

Elems == { PyDict([id |-> "a"]), PyDict([id |-> "b"]) }

ResultLists == UNION { [1..n -> Elems] : n \in 0..MaxResults }

SearchResponses ==
    { [status |-> 200, text |-> JsonText(PyDict([results |-> rs]))] : rs \in ResultLists }
    \cup
    { [status |-> 200, text |-> JsonText(PyDict([results |-> <<PyInt(42)>>]))],
      [status |-> 200, text |-> JsonText(EmptyDict)],
      [status |-> 204, text |-> EmptyText],
      [status |-> 404, text |-> JsonText(PyDict([message |-> "Not Found"]))],
      [status |-> 401, text |-> JsonText(EmptyDict)] }

\* for x in results: objects.append(Entity(**x))
RECURSIVE deserialize_all(_, _, _, _)
deserialize_all(cls, results, i, acc) ==
    IF i > Len(results) THEN Return(acc)
    ELSE LET o == Deserialize(cls, results[i])
         IN  IF o.kind = "raise" THEN o
             ELSE deserialize_all(cls, results, i + 1, Append(acc, o.value))

\* data['results']
results_of(data) ==
    IF data.t # "dict" THEN Raise("TypeError", "object is not subscriptable")
    ELSE IF "results" \notin DOMAIN data.d THEN Raise("KeyError", "results")
    ELSE Return(data.d.results)

\* The body shared by the search and browse methods: every element of
\* data['results'] deserialized, NotFound when the list built is empty.
SearchReturnsEmptyList(cls, message, r) ==
    IF r.outcome.kind = "raise" THEN r
    ELSE LET rs == results_of(r.outcome.value)
         IN  IF rs.kind = "raise" THEN [sent |-> r.sent, outcome |-> rs]
             ELSE [sent |-> r.sent, outcome |-> deserialize_all(cls, rs.value, 1, <<>>)]

search_results(cls, message, r) ==
    IF r.outcome.kind = "raise" THEN r
    ELSE LET rs == results_of(r.outcome.value)
         IN  IF rs.kind = "raise" THEN [sent |-> r.sent, outcome |-> rs]
             ELSE LET objs == deserialize_all(cls, rs.value, 1, <<>>)
                  IN  IF objs.kind = "raise" THEN [sent |-> r.sent, outcome |-> objs]
                      ELSE IF objs.value = <<>>
                           THEN [sent |-> r.sent, outcome |-> Raise("NotFound", message)]
                           ELSE [sent |-> r.sent, outcome |-> objs]

\* HTTPClient.get_browse_entries
http_get_browse_entries(limit, skip, resp) ==
    request("GET", <<"BROWSE", "limit", limit, "skip", skip>>, NoJson, resp)

get_browse_entries(limit, skip, resp) ==
    search_results("BrowseEntry", "No browse entry was found.",
                   http_get_browse_entries(limit, skip, resp))

search_release(term, limit, skip, resp) ==
    search_results("Release", "No release was found.",
        request("GET", <<"RELEASE", "fuzzyOr", "title", quote(term),
                         "renderedArtists", quote(term), "limit", limit, "skip", skip>>,
                NoJson, resp))

search_release_advanced(title, artists, limit, skip, resp) ==
    search_results("Release", "No release was found.",
        request("GET", <<"RELEASE", "fuzzy", "title", quote(title),
                         "renderedArtists", quote(artists), "limit", limit, "skip", skip>>,
                NoJson, resp))

search_track(term, limit, skip, resp) ==
    search_results("Track", "No track was found.",
        request("GET", <<"TRACK", "fuzzyOr", "title", quote(term),
                         "artistsTitle", quote(term), "limit", limit, "skip", skip>>,
                NoJson, resp))

search_track_advanced(title, artists, limit, skip, resp) ==
    search_results("Track", "No track was found.",
        request("GET", <<"TRACK", "fuzzy", "title", quote(title),
                         "artistsTitle", quote(artists), "limit", limit, "skip", skip>>,
                NoJson, resp))

search_artist(term, year, limit, skip, resp) ==
    LET base == <<"ARTIST", "limit", limit, "skip", skip, "fuzzyOr", "name", quote(term)>>
        url == IF year_given(year) THEN base \o <<"year", year>> ELSE base
    IN  search_results("Artist", "No artist was found.", request("GET", url, NoJson, resp))

search_playlist(term, limit, skip, resp) ==
    search_results("Playlist", "No playlist was found.",
        request("GET", <<"PLAYLIST", "fuzzyOr", "name", quote(term),
                         "limit", limit, "skip", skip>>,
                NoJson, resp))

\* What a finished search leaves behind for inspection.
Searched(op, cls, resp, r) ==
    [op |-> op, family |-> "search", cls |-> cls, resp |-> resp,
     sent |-> r.sent, outcome |-> r.outcome]

GetBrowseEntries ==
    \E limit \in Limits, resp \in SearchResponses :
        /\ last = NoCall
        /\ last' = Searched("get_browse_entries", "BrowseEntry", resp,
                            get_browse_entries(limit, "None", resp))
        /\ UNCHANGED sessionVars

SearchRelease ==
    \E term \in Terms, limit \in Limits, resp \in SearchResponses :
        /\ last = NoCall
        /\ last' = Searched("search_release", "Release", resp,
                            search_release(term, limit, "None", resp))
        /\ UNCHANGED sessionVars

SearchReleaseAdvanced ==
    \E title \in Terms, artists \in Terms, resp \in SearchResponses :
        /\ last = NoCall
        /\ last' = Searched("search_release_advanced", "Release", resp,
                            search_release_advanced(title, artists, "None", "None", resp))
        /\ UNCHANGED sessionVars

SearchTrack ==
    \E term \in Terms, limit \in Limits, resp \in SearchResponses :
        /\ last = NoCall
        /\ last' = Searched("search_track", "Track", resp,
                            search_track(term, limit, "None", resp))
        /\ UNCHANGED sessionVars

SearchTrackAdvanced ==
    \E title \in Terms, artists \in Terms, resp \in SearchResponses :
        /\ last = NoCall
        /\ last' = Searched("search_track_advanced", "Track", resp,
                            search_track_advanced(title, artists, "None", "None", resp))
        /\ UNCHANGED sessionVars

SearchArtist ==
    \E term \in Terms, year \in Years, resp \in SearchResponses :
        /\ last = NoCall
        /\ last' = Searched("search_artist", "Artist", resp,
                            search_artist(term, year, "None", "None", resp))
        /\ UNCHANGED sessionVars

SearchPlaylist ==
    \E term \in Terms, limit \in Limits, resp \in SearchResponses :
        /\ last = NoCall
        /\ last' = Searched("search_playlist", "Playlist", resp,
                            search_playlist(term, limit, "None", resp))
        /\ UNCHANGED sessionVars

(***************************************************************************)
(* Catalog reads, bulk listings and the remaining one-request methods.     *)
(***************************************************************************)
Ids == {"MC011", "gq"}

ObjectJson == PyDict([id |-> "a", title |-> "Nocturnal"])

ObjectResponses ==
    { [status |-> 200, text |-> JsonText(ObjectJson)],
      [status |-> 204, text |-> EmptyText],
      [status |-> 404, text |-> JsonText(PyDict([message |-> "Not Found"]))],
      [status |-> 404, text |-> RawText("Not Found")],
      [status |-> 404, text |-> EmptyText],
      [status |-> 403, text |-> JsonText(PyDict([message |-> "Not signed in"]))],
      [status |-> 401, text |-> JsonText(EmptyDict)],
      [status |-> 500, text |-> RawText("Bad Gateway")] }

\* What a finished call leaves behind for inspection.
Called(op, family, cls, resp, r) ==
    [op |-> op, family |-> family, cls |-> cls, resp |-> resp,
     sent |-> r.sent, outcome |-> r.outcome]

\* What a finished get leaves behind: the call and the id it was given.
Got(op, cls, id, resp, r) ==
    [op |-> op, family |-> "get", cls |-> cls, id |-> id, resp |-> resp,
     sent |-> r.sent, outcome |-> r.outcome]

\* HTTPClient.get_release / get_track / get_artist / get_playlist
http_get(collection, id, resp) == request("GET", <<collection, id>>, NoJson, resp)

\* The body shared by the get methods, with the error dropped and None returned
GetSwallowsError(cls, r) ==
    [sent |-> r.sent,
     outcome |-> IF r.outcome.kind = "raise" THEN Return(None)
                 ELSE Deserialize(cls, r.outcome.value)]

\* The body shared by Client.get_release / get_track / get_artist / get_playlist
get_one(cls, r) == one_object(cls, r)

get_release(catalog_id, resp) == get_one("Release", http_get("RELEASE", catalog_id, resp))
get_track(track_id, resp) == get_one("Track", http_get("TRACK", track_id, resp))
get_artist(artist_id, resp) == get_one("Artist", http_get("ARTIST", artist_id, resp))
get_playlist(playlist_id, resp) ==
    get_one("Playlist", http_get("PLAYLIST", playlist_id, resp))

GetRelease ==
    \E id \in Ids, resp \in ObjectResponses :
        /\ last = NoCall
        /\ last' = Got("get_release", "Release", id, resp, get_release(id, resp))
        /\ UNCHANGED sessionVars

GetTrack ==
    \E id \in Ids, resp \in ObjectResponses :
        /\ last = NoCall
        /\ last' = Got("get_track", "Track", id, resp, get_track(id, resp))
        /\ UNCHANGED sessionVars

GetArtist ==
    \E id \in Ids, resp \in ObjectResponses :
        /\ last = NoCall
        /\ last' = Got("get_artist", "Artist", id, resp, get_artist(id, resp))
        /\ UNCHANGED sessionVars

GetPlaylist ==
    \E id \in Ids, resp \in ObjectResponses :
        /\ last = NoCall
        /\ last' = Got("get_playlist", "Playlist", id, resp, get_playlist(id, resp))
        /\ UNCHANGED sessionVars

\* HTTPClient.get_all_releases / get_all_tracks / get_all_artists / get_all_playlists
http_get_all(collection, filters, limit, skip, resp) ==
    request("GET", <<collection, filters, "limit", limit, "skip", skip>>, NoJson, resp)

\* The body shared by the bulk listings, with the tail of the search methods
ListRaisesOnEmpty(cls, r) == search_results(cls, "Nothing was found.", r)

\* The body shared by Client.get_all_*: every element of data['results']
\* deserialized, the list returned as it is.
list_results(cls, r) ==
    IF r.outcome.kind = "raise" THEN r
    ELSE LET rs == results_of(r.outcome.value)
         IN  IF rs.kind = "raise" THEN [sent |-> r.sent, outcome |-> rs]
             ELSE [sent |-> r.sent, outcome |-> deserialize_all(cls, rs.value, 1, <<>>)]

get_all_releases(singles, eps, albums, podcasts, limit, skip, resp) ==
    list_results("Release",
        http_get_all("RELEASE", <<singles, eps, albums, podcasts>>, limit, skip, resp))

get_all_tracks(limit, skip, resp) ==
    list_results("Track", http_get_all("TRACK", <<>>, limit, skip, resp))

get_all_artists(year, limit, skip, resp) ==
    list_results("Artist", http_get_all("ARTIST", <<year>>, limit, skip, resp))

get_all_playlists(limit, skip, resp) ==
    list_results("Playlist", http_get_all("PLAYLIST", <<>>, limit, skip, resp))

GetAllReleases ==
    \E podcasts \in BOOLEAN, limit \in Limits, resp \in SearchResponses :
        /\ last = NoCall
        /\ last' = Called("get_all_releases", "list", "Release", resp,
                          get_all_releases(TRUE, TRUE, TRUE, podcasts, limit, "None", resp))
        /\ UNCHANGED sessionVars

GetAllTracks ==
    \E limit \in Limits, resp \in SearchResponses :
        /\ last = NoCall
        /\ last' = Called("get_all_tracks", "list", "Track", resp,
                          get_all_tracks(limit, "None", resp))
        /\ UNCHANGED sessionVars

GetAllArtists ==
    \E year \in Years, limit \in Limits, resp \in SearchResponses :
        /\ last = NoCall
        /\ last' = Called("get_all_artists", "list", "Artist", resp,
                          get_all_artists(year, limit, "None", resp))
        /\ UNCHANGED sessionVars

GetAllPlaylists ==
    \E limit \in Limits, resp \in SearchResponses :
        /\ last = NoCall
        /\ last' = Called("get_all_playlists", "list", "Playlist", resp,
                          get_all_playlists(limit, "None", resp))
        /\ UNCHANGED sessionVars

\* A method that awaits its one transport call and returns nothing.
awaited(r) ==
    [sent |-> r.sent,
     outcome |-> IF r.outcome.kind = "raise" THEN r.outcome ELSE Return(None)]

\* HTTPClient.edit_playlist / edit_profile / add_reddit_username /
\* delete_playlist / delete_playlist_track / get_discord_invite
http_edit_playlist(playlist_id, name, public, resp) ==
    request("PATCH", <<"PLAYLIST", playlist_id>>,
            Json(PyDict([name |-> name, public |-> public])), resp)

http_edit_profile(name, resp) ==
    request("PATCH", "SELF", Json(PyDict([name |-> name])), resp)

http_add_reddit_username(username, resp) ==
    request("POST", <<"SELF", "reddit">>, Json(PyDict([redditUsername |-> username])), resp)

http_delete_playlist(playlist_id, resp) ==
    request("DELETE", <<"PLAYLIST", playlist_id>>, NoJson, resp)

http_delete_playlist_track(playlist_id, track_id, resp) ==
    request("PATCH", <<"PLAYLIST", playlist_id, track_id>>, NoJson, resp)

http_get_discord_invite(resp) == request("GET", <<"SELF", "discord">>, NoJson, resp)

\* Client.edit_playlist
edit_playlist(playlist, name, public, resp) ==
    one_object("Playlist", http_edit_playlist(playlist.id, name, public, resp))

\* Client.edit_profile: the coroutine HTTPClient.edit_profile returns is
\* dropped without being awaited, so its request is never sent and the
\* method returns None whatever the server would answer.
edit_profile(name, resp) ==
    LET coroutine == http_edit_profile(name, resp)
    IN  no_request(Return(None))

\* Client.add_reddit_username
add_reddit_username(username, resp) == awaited(http_add_reddit_username(username, resp))

\* Client.delete_playlist
delete_playlist(playlist, resp) == awaited(http_delete_playlist(playlist.id, resp))

\* Client.delete_playlist_track
delete_playlist_track(playlist, track, resp) ==
    one_object("Playlist", http_delete_playlist_track(playlist.id, track.id, resp))

\* Client.get_discord_invite
get_discord_invite(resp) == http_get_discord_invite(resp)

EditPlaylist ==
    \E playlist \in Playlists, public \in BOOLEAN, resp \in PlaylistResponses :
        /\ last = NoCall
        /\ last' = Called("edit_playlist", "edit", "Playlist", resp,
                          edit_playlist(playlist, "mix", public, resp))
        /\ UNCHANGED sessionVars

\* resp is the answer the server has for a profile edit.
EditProfile ==
    \E name \in Terms, resp \in PlaylistResponses :
        /\ last = NoCall
        /\ last' = Called("edit_profile", "edit", "None", resp, edit_profile(name, resp))
        /\ UNCHANGED sessionVars

AddRedditUsername ==
    \E username \in Terms, resp \in ObjectResponses :
        /\ last = NoCall
        /\ last' = Called("add_reddit_username", "edit", "None", resp,
                          add_reddit_username(username, resp))
        /\ UNCHANGED sessionVars

DeletePlaylist ==
    \E playlist \in Playlists, resp \in PlaylistResponses :
        /\ last = NoCall
        /\ last' = Called("delete_playlist", "edit", "None", resp,
                          delete_playlist(playlist, resp))
        /\ UNCHANGED sessionVars

DeletePlaylistTrack ==
    \E playlist \in Playlists, track \in Tracks, resp \in PlaylistResponses :
        /\ last = NoCall
        /\ last' = Called("delete_playlist_track", "edit", "Playlist", resp,
                          delete_playlist_track(playlist, track, resp))
        /\ UNCHANGED sessionVars

GetDiscordInvite ==
    \E resp \in ObjectResponses :
        /\ last = NoCall
        /\ last' = Called("get_discord_invite", "get_invite", "None", resp,
                          get_discord_invite(resp))
        /\ UNCHANGED sessionVars

(***************************************************************************)
(* The session life cycle.  Every caller is a coroutine on the one event   *)
(* loop: it runs alone between two awaits, and at an await the other       *)
(* callers may run.  A request and its response are one step; the await of *)
(* the transport's close is a step of its own, so that a call started      *)
(* while another is suspended in it is part of the model.                  *)
(***************************************************************************)
Tasks == 1..NumTasks

NoToken == [given |-> FALSE]
Token(n) == [given |-> TRUE, n |-> n]
TokenArgs == {NoToken, Token(0), Token(123456)}

\* bool(token): None and 0 are falsy.
token_truthy(token) == token.given /\ token.n # 0

Idle ==
    [op |-> "none", pc |-> "idle", token |-> NoToken, http |-> <<>>,
     outcome |-> "none", value |-> "None", seen |-> "none"]

\* A call that has just started: nothing invoked yet, no outcome yet.
NewCall(op) == [Idle EXCEPT !.op = op, !.outcome = "pending"]

Init ==
    /\ is_closed = FALSE
    /\ session_closed = FALSE
    /\ close_calls = 0
    /\ close_failures = 0
    /\ server_session = FALSE
    /\ session_hist = "none"
    /\ call = [t \in Tasks |-> Idle]
    /\ last = NoCall

\* The transport method Client.sign_in picks.
sign_in_endpoint(token) ==
    IF ~token_truthy(token) THEN "email_sign_in" ELSE "two_feature_sign_in"

\* Client.sign_in.  The server accepts or rejects the credentials; a closed
\* aiohttp session refuses to send.
SignInNotAwaited(t) ==
    /\ call[t].pc = "idle"
    /\ \E token \in TokenArgs :
          /\ call' = [call EXCEPT ![t] =
                        [NewCall("sign_in") EXCEPT !.token = token,
                                                   !.outcome = "returned"]]
          /\ session_hist' = "in"
    /\ UNCHANGED <<is_closed, session_closed, close_calls, close_failures,
                   server_session, last>>

SignIn(t) ==
    /\ call[t].pc = "idle"
    /\ \E token \in TokenArgs, accepted \in BOOLEAN :
          LET c == [NewCall("sign_in") EXCEPT !.token = token,
                                              !.http = <<sign_in_endpoint(token)>>]
          IN  IF session_closed
              THEN /\ call' = [call EXCEPT ![t] = [c EXCEPT !.outcome = "RuntimeError"]]
                   /\ UNCHANGED <<server_session, session_hist>>
              ELSE IF accepted
              THEN /\ call' = [call EXCEPT ![t] = [c EXCEPT !.outcome = "returned"]]
                   /\ server_session' = TRUE
                   /\ session_hist' = "in"
              ELSE /\ call' = [call EXCEPT ![t] = [c EXCEPT !.outcome = "HTTPSException"]]
                   /\ UNCHANGED <<server_session, session_hist>>
    /\ UNCHANGED <<is_closed, session_closed, close_calls, close_failures, last>>

\* HTTPClient.is_signed_in: the authenticated probe.
http_is_signed_in == IF server_session THEN "True" ELSE "False"

\* Client.is_signed_in
IsSignedIn(t) ==
    /\ call[t].pc = "idle"
    /\ LET c == [NewCall("is_signed_in") EXCEPT !.http = <<"is_signed_in">>,
                                                !.seen = session_hist]
       IN  IF session_closed
           THEN call' = [call EXCEPT ![t] = [c EXCEPT !.outcome = "RuntimeError"]]
           ELSE call' = [call EXCEPT ![t] = [c EXCEPT !.outcome = "returned",
                                                      !.value = http_is_signed_in]]
    /\ UNCHANGED <<is_closed, session_closed, close_calls, close_failures,
                   server_session, session_hist, last>>

SignOutResults == {"ok", "Unauthorized", "HTTPSException"}

\* The close moved into a finally clause: run even when the request failed
SignOutClosesOnError(t) ==
    /\ call[t].pc = "idle"
    /\ ~session_closed
    /\ \E result \in SignOutResults \ {"ok"} :
          call' = [call EXCEPT ![t] =
                     [NewCall("sign_out") EXCEPT !.http = <<"sign_out", "close">>,
                                                 !.outcome = result]]
    /\ close_calls' = close_calls + 1
    /\ session_closed' = TRUE
    /\ is_closed' = TRUE
    /\ UNCHANGED <<close_failures, server_session, session_hist, last>>

\* Client.sign_out up to the end of  await self.http.sign_out()
SignOutRequest(t) ==
    /\ call[t].pc = "idle"
    /\ \E result \in SignOutResults :
          LET c == [NewCall("sign_out") EXCEPT !.http = <<"sign_out">>]
          IN  IF session_closed
              THEN /\ call' = [call EXCEPT ![t] = [c EXCEPT !.outcome = "RuntimeError"]]
                   /\ UNCHANGED <<server_session, session_hist>>
              ELSE IF result = "ok"
              THEN /\ call' = [call EXCEPT ![t] = [c EXCEPT !.pc = "signed_out"]]
                   /\ server_session' = FALSE
                   /\ session_hist' = "out"
              ELSE /\ call' = [call EXCEPT ![t] = [c EXCEPT !.outcome = result]]
                   /\ UNCHANGED <<server_session, session_hist>>
    /\ UNCHANGED <<is_closed, session_closed, close_calls, close_failures, last>>

\* Client.close up to the await of the transport's close, run by the call c
\* of caller t: a no-op once the flag is set, otherwise HTTPClient.close is
\* invoked and the caller is suspended in it.
CloseUnguarded(t, c) ==
    /\ close_calls' = close_calls + 1
    /\ call' = [call EXCEPT ![t] =
                  [c EXCEPT !.pc = "closing", !.http = Append(c.http, "close")]]
    /\ UNCHANGED <<is_closed, session_closed, close_failures,
                   server_session, session_hist, last>>

close_begin(t, c) ==
    /\ IF is_closed
       THEN /\ call' = [call EXCEPT ![t] = [c EXCEPT !.pc = "idle", !.outcome = "returned"]]
            /\ UNCHANGED close_calls
       ELSE /\ close_calls' = close_calls + 1
            /\ call' = [call EXCEPT ![t] =
                          [c EXCEPT !.pc = "closing", !.http = Append(c.http, "close")]]
    /\ UNCHANGED <<is_closed, session_closed, close_failures,
                   server_session, session_hist, last>>

\* Client.close called by the caller
Close(t) ==
    /\ call[t].pc = "idle"
    /\ close_begin(t, NewCall("close"))

\* Client.sign_out:  await self.close()
SignOutSkipsClose(t) ==
    /\ call[t].pc = "signed_out"
    /\ call' = [call EXCEPT ![t] = [@ EXCEPT !.pc = "idle", !.outcome = "returned"]]
    /\ UNCHANGED <<is_closed, session_closed, close_calls, close_failures,
                   server_session, session_hist, last>>

SignOutClose(t) ==
    /\ call[t].pc = "signed_out"
    /\ close_begin(t, call[t])

\* The transport's close returns: Client.close sets the flag and returns.
CloseReturn(t) ==
    /\ call[t].pc = "closing"
    /\ session_closed' = TRUE
    /\ is_closed' = TRUE
    /\ call' = [call EXCEPT ![t] = [@ EXCEPT !.pc = "idle", !.outcome = "returned"]]
    /\ UNCHANGED <<close_calls, close_failures, server_session, session_hist, last>>

\* The flag set in a finally clause: set even when the close raises
CloseRaiseSetsFlag(t) ==
    /\ call[t].pc = "closing"
    /\ close_failures < MaxCloseFailures
    /\ close_failures' = close_failures + 1
    /\ is_closed' = TRUE
    /\ call' = [call EXCEPT ![t] = [@ EXCEPT !.pc = "idle", !.outcome = "Exception"]]
    /\ UNCHANGED <<session_closed, close_calls, server_session, session_hist, last>>

\* The transport's close raises: the flag is left as it was.
CloseRaise(t) ==
    /\ call[t].pc = "closing"
    /\ close_failures < MaxCloseFailures
    /\ close_failures' = close_failures + 1
    /\ call' = [call EXCEPT ![t] = [@ EXCEPT !.pc = "idle", !.outcome = "Exception"]]
    /\ UNCHANGED <<is_closed, session_closed, close_calls,
                   server_session, session_hist, last>>

Next ==
    \E t \in Tasks :
        \/ SignIn(t)
        \/ IsSignedIn(t)
        \/ SignOutRequest(t)
        \/ SignOutClose(t)
        \/ Close(t)
        \/ CloseReturn(t)
        \/ CloseRaise(t)

Spec == Init /\ [][Next]_vars

NextCalls ==
    \/ Request
    \/ CreatePlaylist
    \/ AddPlaylistTrack
    \/ AddPlaylistTracks
    \/ GetBrowseEntries
    \/ SearchRelease
    \/ SearchReleaseAdvanced
    \/ SearchTrack
    \/ SearchTrackAdvanced
    \/ SearchArtist
    \/ SearchPlaylist
    \/ GetRelease
    \/ GetTrack
    \/ GetArtist
    \/ GetPlaylist
    \/ GetAllReleases
    \/ GetAllTracks
    \/ GetAllArtists
    \/ GetAllPlaylists
    \/ EditPlaylist
    \/ EditProfile
    \/ AddRedditUsername
    \/ DeletePlaylist
    \/ DeletePlaylistTrack
    \/ GetDiscordInvite

SpecCalls == Init /\ [][NextCalls]_vars
(***************************************************************************)
(* Properties of HTTPClient.request (checked under SpecCalls).             *)
(***************************************************************************)
Is2xx(status) == status >= 200 /\ status <= 299

ErrorKind(status) ==
    CASE status = 401 -> "Unauthorized"
      [] status = 403 -> "Forbidden"
      [] status = 404 -> "NotFound"
      [] OTHER -> "HTTPSException"

\* The message the server put in the body: the message field of a JSON
\* object, the raw text of a non-JSON body, otherwise none (the default).
ServerMessage(text) ==
    IF text.json
    THEN IF text.v.t = "dict" /\ "message" \in DOMAIN text.v.d
         THEN text.v.d.message ELSE "Unknown error"
    ELSE IF text.s # "" THEN text.s ELSE "Unknown error"

\* The kinds of body the claims speak of: a JSON object (with or without a
\* message field), non-JSON text, the empty body.
ClaimedBody(text) == ~text.json \/ text.v.t = "dict"

\* C1: every response whose status is outside 200..299 makes request raise
\* the error kind fixed by the status alone (401 Unauthorized, 403 Forbidden,
\* 404 NotFound, anything else HTTPSException), whatever the body is.
C1_ErrorKindByStatus ==
    (last.op = "request" /\ ~Is2xx(last.resp.status) /\ ClaimedBody(last.resp.text))
        => /\ last.outcome.kind = "raise"
           /\ last.outcome.exc = ErrorKind(last.resp.status)

\* C2: for every non-2xx response the error raised carries the server's
\* message unchanged, and "Unknown error" when the body has none (the empty
\* body included).
C2_MessagePassedThrough ==
    (last.op = "request" /\ ~Is2xx(last.resp.status) /\ ClaimedBody(last.resp.text))
        => /\ last.outcome.kind = "raise"
           /\ last.outcome.message = ServerMessage(last.resp.text)

\* C3: every 2xx response makes request return without raising: the parsed
\* JSON value when the body parses, {message: <raw text>} when it does not
\* and is non-empty, None when it is empty.
C3_SuccessReturnsBody ==
    (last.op = "request" /\ Is2xx(last.resp.status))
        => /\ last.outcome.kind = "return"
           /\ last.resp.text.json => last.outcome.value = last.resp.text.v
           /\ (~last.resp.text.json /\ last.resp.text.s # "")
                 => last.outcome.value = PyDict([message |-> last.resp.text.s])
           /\ (~last.resp.text.json /\ last.resp.text.s = "")
                 => last.outcome.value = None

\* C3 happens: a 2xx response with an empty body has been answered with None.
C3_Witness ==
    /\ last.op = "request"
    /\ Is2xx(last.resp.status)
    /\ last.resp.text = EmptyText
    /\ last.outcome = Return(None)

(***************************************************************************)
(* Properties of the playlist mutations (checked under SpecCalls).         *)
(***************************************************************************)
PlaylistOps == {"create_playlist", "add_playlist_track", "add_playlist_tracks"}

\* The release of the pair is absent from the albums of its track.
InvalidPair(pair) == pair[2].id \notin pair[1].albums

\* C6: a playlist mutation given at least one pair whose release is absent
\* from the track's albums raises ValueError and sends no request, wherever
\* the pair stands in the list; a request is sent only when every pair is
\* valid.
C6_InvalidPairNoRequest ==
    last.op \in PlaylistOps
        => /\ (\E i \in DOMAIN last.entries : InvalidPair(last.entries[i]))
                 => /\ last.outcome.kind = "raise"
                    /\ last.outcome.exc = "ValueError"
                    /\ last.sent = <<>>
           /\ last.sent # <<>>
                 => \A i \in DOMAIN last.entries : ~InvalidPair(last.entries[i])

\* C6 happens: the invalid pair came after a valid one and nothing was sent.
C6_Witness ==
    /\ last.op = "add_playlist_tracks"
    /\ Len(last.entries) = 2
    /\ ~InvalidPair(last.entries[1])
    /\ InvalidPair(last.entries[2])
    /\ last.outcome.kind = "raise"
    /\ last.sent = <<>>

(***************************************************************************)
(* Properties of search and browse (checked under SpecCalls).              *)
(***************************************************************************)
\* The response is a success whose body is an object with a results array
\* of objects.
HasResults(resp) ==
    /\ Is2xx(resp.status)
    /\ resp.text.json
    /\ resp.text.v.t = "dict"
    /\ "results" \in DOMAIN resp.text.v.d
    /\ \A i \in DOMAIN resp.text.v.d.results : resp.text.v.d.results[i].t = "dict"

ResultsOf(resp) == resp.text.v.d.results

\* C10: a search or browse call answered with an empty results array raises
\* NotFound (search_track with "No track was found."); answered with a
\* non-empty one it returns one object per element, in the same order.
C10_SearchEmptyIsNotFound ==
    (last.op # "none" /\ last.op \notin PlaylistOps /\ last.op # "request"
        /\ last.family = "search" /\ HasResults(last.resp))
        => /\ ResultsOf(last.resp) = <<>>
                 => /\ last.outcome.kind = "raise"
                    /\ last.outcome.exc = "NotFound"
                    /\ last.op = "search_track"
                          => last.outcome.message = "No track was found."
           /\ ResultsOf(last.resp) # <<>>
                 => /\ last.outcome.kind = "return"
                    /\ Len(last.outcome.value) = Len(ResultsOf(last.resp))
                    /\ \A i \in DOMAIN ResultsOf(last.resp) :
                          last.outcome.value[i] =
                              [cls |-> last.cls, fields |-> ResultsOf(last.resp)[i].d]

\* C10 happens: search_track got an empty results array and raised NotFound.
C10_Witness ==
    /\ last.op = "search_track"
    /\ HasResults(last.resp)
    /\ ResultsOf(last.resp) = <<>>
    /\ last.outcome.kind = "raise"
    /\ last.outcome.exc = "NotFound"

(***************************************************************************)
(* Properties of the session life cycle (checked under Spec).              *)
(***************************************************************************)
\* C4: however close calls interleave, the transport's close is invoked at
\* most once (an invocation that raised is not counted: it released nothing).
C4_TransportClosedOnce == close_calls - close_failures <= 1

\* C5: once a close call has completed successfully, no later call invokes
\* the transport's close again, the closed flag stays True, and every close
\* call made from then on returns at once.
C5_CloseIdempotent ==
    [][is_closed =>
          /\ is_closed'
          /\ close_calls' = close_calls
          /\ \A t \in Tasks :
                (call[t].pc = "idle" /\ call'[t] # call[t] /\ call'[t].op = "close")
                    => (call'[t].outcome = "returned" /\ call'[t].http = <<>>)]_vars

\* C5 happens: a close call made on the closed client returned without
\* invoking the transport.
C5_Witness ==
    \E t \in Tasks :
        /\ is_closed
        /\ call[t].op = "close"
        /\ call[t].http = <<>>
        /\ call[t].outcome = "returned"

\* C7: a probe made after a successful sign_in reports true, and one made
\* after a sign_out reports false, unless the client is closed and rejects
\* the call.
C7_ProbeFollowsSession ==
    \A t \in Tasks :
        (call[t].op = "is_signed_in" /\ call[t].outcome # "pending")
            => /\ call[t].outcome \in {"returned", "RuntimeError"}
               /\ call[t].outcome = "RuntimeError" => session_closed
               /\ (call[t].outcome = "returned" /\ call[t].seen = "in")
                     => call[t].value = "True"
               /\ (call[t].outcome = "returned" /\ call[t].seen = "out")
                     => call[t].value = "False"

\* C7 happens: sign_in, a probe reporting true, sign_out, and a probe
\* rejected by the closed client.
C7_Witness ==
    \E t, u \in Tasks :
        /\ call[t].op = "is_signed_in"
        /\ call[t].seen = "in"
        /\ call[t].value = "True"
        /\ call[u].op = "is_signed_in"
        /\ call[u].seen = "out"
        /\ call[u].outcome = "RuntimeError"

\* C8: sign_out invokes the transport's close only after its sign-out
\* request has completed, and once it has returned normally the client is
\* closed: flag True, transport released.
C8_SignOutThenClose ==
    \A t \in Tasks :
        call[t].op = "sign_out"
            => /\ (\E i \in DOMAIN call[t].http : call[t].http[i] = "close")
                     => call[t].http = <<"sign_out", "close">>
               /\ call[t].pc = "closing" => call[t].http = <<"sign_out", "close">>
               /\ call[t].outcome = "returned" => (is_closed /\ session_closed)

\* C8 happens: a sign_out has signed out, closed the transport and returned.
C8_Witness ==
    \E t \in Tasks :
        /\ call[t].op = "sign_out"
        /\ call[t].http = <<"sign_out", "close">>
        /\ call[t].outcome = "returned"

\* C9: sign_in uses the two-factor endpoint exactly when the caller supplied
\* a token, whatever its value, and the plain one otherwise; one of the two
\* is invoked per call.
C9_TwoFactorIffToken ==
    \A t \in Tasks :
        call[t].op = "sign_in"
            => /\ Len(call[t].http) = 1
               /\ call[t].http[1] \in {"email_sign_in", "two_feature_sign_in"}
               /\ call[t].http[1] = "two_feature_sign_in" <=> call[t].token.given
(***************************************************************************)
(* Properties of the bulk listings and catalog reads (under SpecCalls).    *)
(***************************************************************************)
ListOps == {"get_all_releases", "get_all_tracks", "get_all_artists", "get_all_playlists"}
GetOps == {"get_release", "get_track", "get_artist", "get_playlist"}

\* C11: a bulk listing answered with a results array returns one object per
\* element, in the same order; an empty array gives the empty list and no
\* error.
C11_ListReturnsEveryResult ==
    (last.op \in ListOps /\ HasResults(last.resp))
        => /\ last.outcome.kind = "return"
           /\ Len(last.outcome.value) = Len(ResultsOf(last.resp))
           /\ \A i \in DOMAIN ResultsOf(last.resp) :
                 last.outcome.value[i] =
                     [cls |-> last.cls, fields |-> ResultsOf(last.resp)[i].d]

\* C11 happens: a bulk listing got an empty results array and returned the
\* empty list.
C11_Witness ==
    /\ last.op = "get_all_tracks"
    /\ HasResults(last.resp)
    /\ ResultsOf(last.resp) = <<>>
    /\ last.outcome = Return(<<>>)
\* The collection each get method reads.
CollectionOf(op) ==
    CASE op = "get_release" -> "RELEASE"
      [] op = "get_track" -> "TRACK"
      [] op = "get_artist" -> "ARTIST"
      [] op = "get_playlist" -> "PLAYLIST"

\* The transport raises a typed error for this response: the status is no
\* 2xx and the body is a JSON object or non-empty text.
TypedError(resp) ==
    /\ ~Is2xx(resp.status)
    /\ \/ resp.text.json /\ resp.text.v.t = "dict"
       \/ ~resp.text.json /\ resp.text.s # ""

\* C13: each get method sends exactly one GET for the id it was given and
\* returns the one object built from the response; the NotFound the
\* transport raises for a 404 reaches the caller unchanged.
C13_GetOneOrNotFound ==
    last.op \in GetOps
        => /\ Len(last.sent) = 1
           /\ last.sent[1].method = "GET"
           /\ last.sent[1].url = <<CollectionOf(last.op), last.id>>
           /\ (last.resp.status = 404 /\ TypedError(last.resp))
                 => last.outcome = Raise("NotFound", ServerMessage(last.resp.text))
           /\ (Is2xx(last.resp.status) /\ last.resp.text.json
                    /\ last.resp.text.v.t = "dict")
                 => last.outcome =
                        Return([cls |-> last.cls, fields |-> last.resp.text.v.d])

\* C13 happens: a get was answered 404 and the caller got NotFound.
C13_Witness ==
    /\ last.op = "get_release"
    /\ last.resp.status = 404
    /\ Len(last.sent) = 1
    /\ last.outcome.kind = "raise"
    /\ last.outcome.exc = "NotFound"
(***************************************************************************)
(* Properties of every stateless method (checked under SpecCalls).         *)
(***************************************************************************)
\* The typed error HTTPClient.request raises for a response.
TypedErrorOf(resp) ==
    IF ErrorKind(resp.status) = "HTTPSException"
    THEN RaiseWithResponse("HTTPSException", ServerMessage(resp.text), resp.status)
    ELSE Raise(ErrorKind(resp.status), ServerMessage(resp.text))

\* C12: whenever the transport call made for a public method fails with a
\* typed error, that error is what the caller gets, and the request was sent
\* once: nothing is swallowed, nothing retried (edit_profile included).
C12_ErrorsSurface ==
    (last.op # "none" /\ last.resp # NoResponse /\ TypedError(last.resp))
        => /\ last.outcome = TypedErrorOf(last.resp)
           /\ Len(last.sent) = 1

\* C14: a public method that returns has sent exactly one request and got
\* its response.
C14_OneRequestPerCall ==
    (last.op # "none" /\ last.outcome.kind = "return") => Len(last.sent) = 1
\* C15: every request sent carries the User-Agent header, carries
\* Content-Type: application/json exactly when a JSON body was supplied,
\* which is then sent serialized, and carries no other header.
C15_Headers ==
    last.op # "none"
        => /\ \A i \in DOMAIN last.sent :
                 /\ UserAgentHeader \in last.sent[i].headers
                 /\ last.sent[i].headers \subseteq {UserAgentHeader, ContentTypeHeader}
                 /\ ContentTypeHeader \in last.sent[i].headers <=> last.sent[i].data.json
           /\ last.op = "request"
                 => /\ Len(last.sent) = 1
                    /\ ContentTypeHeader \in last.sent[1].headers <=> last.json.given
                    /\ last.json.given => last.sent[1].data = JsonText(last.json.v)
                    /\ ~last.json.given => last.sent[1].data = EmptyText

\* C15 happens: a request without a JSON body went out with the User-Agent
\* header alone.
C15_Witness ==
    /\ last.op = "request"
    /\ ~last.json.given
    /\ last.sent[1].headers = {UserAgentHeader}
(***************************************************************************)
(* Properties of the closed flag (checked under Spec).                     *)
(***************************************************************************)
\* C16: the closed flag is True only once a call of the transport's close
\* has returned; it is set only by Client.close when that awaited call
\* returns, is never reset, and is left False when the call raises, so that
\* the next close call invokes the transport again.
C16_FlagFollowsTransport ==
    [][/\ is_closed' => session_closed'
       /\ is_closed => is_closed'
       /\ (~is_closed /\ is_closed')
             => \E t \in Tasks :
                   /\ call[t].pc = "closing"
                   /\ call'[t].pc = "idle"
                   /\ call'[t].outcome = "returned"
       /\ close_failures' # close_failures => is_closed' = is_closed
       /\ \A t \in Tasks :
             (~is_closed /\ call[t].pc = "idle" /\ call'[t] # call[t]
                  /\ call'[t].op = "close")
                => (close_calls' = close_calls + 1 /\ call'[t].pc = "closing")]_vars

\* C16 happens: a caller's close raised, the flag stayed False, and the
\* same caller's next close call invoked the transport again.
C16_Witness ==
    /\ close_failures = 1
    /\ ~is_closed
    /\ \E t \in Tasks :
          /\ call[t].op = "close"
          /\ call[t].pc = "closing"
          /\ \A u \in Tasks \ {t} : call[u].op = "none"
    /\ close_calls = 2

SignOutErrors == {"Unauthorized", "HTTPSException"}

\* C17: when the sign-out request fails, sign_out raises that error without
\* calling close: the call invokes nothing after the request, and leaves the
\* closed flag and the transport as they were.
C17_FailedSignOutLeavesOpen ==
    [][\A t \in Tasks :
          (call'[t] # call[t] /\ call'[t].op = "sign_out"
               /\ call'[t].outcome \in SignOutErrors)
             => /\ call'[t].http = <<"sign_out">>
                /\ call'[t].pc = "idle"
                /\ is_closed' = is_closed
                /\ session_closed' = session_closed
                /\ close_calls' = close_calls]_vars

\* C17 happens: sign_out failed with Unauthorized on a client that is still
\* open, its transport never closed.
C17_Witness ==
    \E t \in Tasks :
        /\ call[t].op = "sign_out"
        /\ call[t].outcome = "Unauthorized"
        /\ call[t].http = <<"sign_out">>
        /\ ~is_closed
        /\ ~session_closed
        /\ close_calls = 0
====
